---- MODULE Spec2Model ----
(***************************************************************************)
(* TuningEngine (native/juce/TuningMiddlewareHost/Source/TuningEngine.cpp) *)
(* as a state machine: the tuning table, the pitch-bend range, the 16 x    *)
(* 128 active-note records and the MIDI buffer that processBlock rewrites. *)
(*                                                                         *)
(* A MIDI message is the sequence of its raw bytes, as juce::MidiMessage   *)
(* stores it; a buffer is a sequence of [pos, msg] records ordered by      *)
(* sample position, as juce::MidiBuffer keeps it.                          *)
(*                                                                         *)
(* Cents values and ranges are single-precision floats in the code.  The   *)
(* model draws them from integers (all exactly representable) and carries  *)
(* out the float operations of calculatePitchBend with IEEE-754            *)
(* round-to-nearest-even on a 24-bit significand.  A float read from       *)
(* persisted bytes can also be a NaN, which compares false with everything.*)
(***************************************************************************)
EXTENDS Integers, Sequences, FiniteSets

VARIABLES
    tuningTable,     \* TuningEngine::tuningTable, cents per note number
    pitchBendRange,  \* TuningEngine::pitchBendRange, semitones
    activeNotes,     \* TuningEngine::activeNotes[channel][note]
    midiMessages,    \* the caller's juce::MidiBuffer, rewritten by processBlock
    lastCall,        \* the most recent operation and, for processBlock, what it was given
    lastWasOn,       \* history, per slot: the latest note-on/note-off event addressed to
                     \* it since construction or the last reset was a note-on
    bendCall,        \* arguments and result of the last direct calculatePitchBend evaluation
    audio,           \* a processBlock call under way on the audio thread, event by event
    control,         \* a setTuningTable call under way on the control thread, entry by entry
    tableSet,        \* history: the argument of the latest setTuningTable call
    destData         \* the host's memory block as getStateInformation last filled it,
                     \* with the table and range of the engine that filled it

vars == <<destData, tuningTable, pitchBendRange, activeNotes, midiMessages, lastCall, lastWasOn,
          bendCall, audio, control, tableSet>>

(***************************************************************************)
(* Program constants.                                                      *)
(***************************************************************************)
NumChannels == 16
DefaultPitchBendRange == 48
MinPitchBendRange == 1
MaxPitchBendRange == 96
PitchBendCentre == 8192
PitchBendMax == 16383
IntMax == 2147483647
IntMin == -IntMax - 1

(***************************************************************************)
(* Single-precision arithmetic of calculatePitchBend.                      *)
(* A non-zero float is [s, m, e] with value s * m * 2^e, s in {-1, 1} and  *)
(* 2^23 <= m < 2^24; zero has s = 0.                                       *)
(***************************************************************************)
Abs(i) == IF i < 0 THEN -i ELSE i

RECURSIVE ILog2(_)
ILog2(k) == IF k < 2 THEN 0 ELSE 1 + ILog2(k \div 2)

\* TRUE iff fr <= 2^ex, for 0 <= fr < 2^24 and any integer ex
LeqPow2(fr, ex) ==
    IF ex >= 24 THEN TRUE ELSE IF ex < 0 THEN fr = 0 ELSE fr <= 2^ex

\* Binary long division: shifts the quotient ip (remainder rem) left until
\* it has 24 significant bits.
RECURSIVE DivNorm(_, _, _, _)
DivNorm(ip, rem, den, e) ==
    IF ip >= 2^23
    THEN [ip |-> ip, rem |-> rem, e |-> e]
    ELSE DivNorm(2 * ip + (IF 2 * rem >= den THEN 1 ELSE 0),
                 (2 * rem) % den, den, e - 1)

\* cents / rangeCents in single precision (rangeCents > 0, |cents| / rangeCents < 2^24)
FloatDiv(num, den) ==
    IF num = 0 THEN [s |-> 0, m |-> 0, e |-> 0]
    ELSE LET d == DivNorm(Abs(num) \div den, Abs(num) % den, den, 0)
             up == \/ 2 * d.rem > den
                   \/ 2 * d.rem = den /\ d.ip % 2 = 1
             m1 == IF up THEN d.ip + 1 ELSE d.ip
             sg == IF num < 0 THEN -1 ELSE 1
         IN  IF m1 = 2^24
             THEN [s |-> sg, m |-> 2^23, e |-> d.e + 1]
             ELSE [s |-> sg, m |-> m1, e |-> d.e]

\* f * 8192.0f: exact, a power of two
FloatMul8192(f) == IF f.s = 0 THEN f ELSE [f EXCEPT !.e = f.e + 13]

\* An integer n with 0 <= n < 2^31 rounded to 24 significant bits
RoundInt24(n) ==
    IF n < 2^24 THEN n
    ELSE LET unit == 2^(ILog2(n) - 23)
             q == n \div unit
             r == n % unit
         IN  IF 2 * r > unit \/ (2 * r = unit /\ q % 2 = 1)
             THEN (q + 1) * unit ELSE q * unit

\* The float 8192.0f + x does not fit in int: the cast is undefined.
CastOverflows(x) ==
    \/ x.s = 1  /\ (x.e >= 8 \/ (x.e = 7 /\ x.m >= 2^24 - 64))
    \/ x.s = -1 /\ (x.e >= 9 \/ (x.e = 8 /\ x.m > 2^23 + 32))

\* What static_cast<int> of an out-of-range float yields: x86 cvttss2si
\* gives INT_MIN whatever the sign, saturating targets (ARM fcvtzs) give
\* INT_MAX above the range and INT_MIN below it.
UBCastOutcomes(sign) == IF sign > 0 THEN {IntMin, IntMax} ELSE {IntMin}

\* SumTruncated with the sum rounded to the nearest integer instead of cut
SumRounded(x) ==
    IF x.s = 0 \/ x.e >= 0 \/ x.e < -24 THEN PitchBendCentre + x.s * (IF x.e >= 0 THEN x.m * 2^x.e ELSE 0)
    ELSE LET ip == x.m \div 2^(-x.e)
             fr == x.m % 2^(-x.e)
             near == IF 2 * fr >= 2^(-x.e) THEN ip + 1 ELSE ip
         IN  PitchBendCentre + x.s * near

\* static_cast<int>(8192.0f + x) when it fits: the sum is rounded to a
\* float, then truncated toward zero.
SumTruncated(x) ==
    IF x.s = 0 THEN PitchBendCentre
    ELSE IF x.e >= 0
    THEN \* x is an integer of magnitude m * 2^e
         IF x.s = 1
         THEN RoundInt24(PitchBendCentre + x.m * 2^x.e)
         ELSE IF x.e = 8
              THEN (4096 - x.m * 128) * 2
              ELSE -RoundInt24(x.m * 2^x.e - PitchBendCentre)
    ELSE LET F == -x.e
             ip == IF F > 24 THEN 0 ELSE x.m \div 2^F
             fr == IF F > 24 THEN x.m ELSE x.m % 2^F
             \* frac(|x|) >= 1 - 2^(p-24): the sum rounds up to the next integer
             upHigh(p) == /\ F <= 24
                          /\ F + p >= 24
                          /\ fr >= 2^F - 2^(F + p - 24)
             \* 0 < frac(|x|) <= 2^(p-24): the difference rounds up
             upLow(p) == fr # 0 /\ LeqPow2(fr, F + p - 24)
         IN  IF x.s = 1
             THEN LET k == PitchBendCentre + ip
                  IN  IF upHigh(ILog2(k)) THEN k + 1 ELSE k
             ELSE IF ip < PitchBendCentre
                  THEN \* 0 < 8192 - |x| <= 8192
                       IF fr = 0 THEN PitchBendCentre - ip
                       ELSE LET k == PitchBendCentre - 1 - ip
                            IN  IF k >= 1 /\ upLow(ILog2(k)) THEN k + 1 ELSE k
                  ELSE \* 8192 - |x| <= 0
                       LET k == ip - PitchBendCentre
                       IN  IF k >= 1 /\ upHigh(ILog2(k)) THEN -(k + 1) ELSE -k

jlimit(lo, hi, v) == IF v < lo THEN lo ELSE IF hi < v THEN hi ELSE v

\* A NaN, told apart from every number the model computes with; the float
\* comparisons below test for it before they compare.
NaN == -IntMax
IsNaN(f) == f = NaN

\* a < b and a <= b on floats: false when either side is a NaN
FloatLess(a, b) == ~IsNaN(a) /\ ~IsNaN(b) /\ a < b
FloatLeq(a, b) == ~IsNaN(a) /\ ~IsNaN(b) /\ a <= b

\* jlimit on floats: two comparisons, so a NaN goes through unchanged
jlimitFloat(lo, hi, v) ==
    IF FloatLess(v, lo) THEN lo ELSE IF FloatLess(hi, v) THEN hi ELSE v

\* What static_cast<int> of a NaN yields: INT_MIN on x86 (cvttss2si), 0 on
\* targets whose conversion maps NaN to zero (ARM fcvtzs)
UBCastNaNOutcomes == {IntMin, 0}

\* The values calculatePitchBend can return for a table entry and a range:
\* one value, except where the cast overflows.  A quotient of 262146 or
\* more puts 8192 + normalized * 8192 beyond 2^31 in magnitude whatever the
\* rounding, so the cast overflows without the division being carried out.
calculatePitchBend(c, range) ==
    IF FloatLeq(range, 0) THEN {PitchBendCentre}
    ELSE IF IsNaN(range) \/ IsNaN(c)
    THEN \* rangeCents or normalized is a NaN, and so is the sum
         {jlimit(0, PitchBendMax, v) : v \in UBCastNaNOutcomes}
    ELSE LET rangeCents == range * 100
         IN  IF Abs(c) \div rangeCents >= 262146
             THEN {jlimit(0, PitchBendMax, v) :
                       v \in UBCastOutcomes(IF c < 0 THEN -1 ELSE 1)}
             ELSE LET normalized == FloatDiv(c, rangeCents)
                      x == FloatMul8192(normalized)
                      values == IF CastOverflows(x) THEN UBCastOutcomes(x.s)
                                ELSE {SumTruncated(x)}
                  IN  {jlimit(0, PitchBendMax, v) : v \in values}


(***************************************************************************)
(* juce::MidiMessage, on the raw bytes.                                    *)
(***************************************************************************)
StatusNibble(m) == m[1] \div 16

\* 1..16 for a channel message, 0 for a system message (status 0xF0..0xFF)
getChannel(m) == IF StatusNibble(m) # 15 THEN (m[1] % 16) + 1 ELSE 0

\* isNoteOn without the velocity test
isNoteOnAnyVelocity(m) == StatusNibble(m) = 9

\* A 0x9n message with velocity 0 is not a note-on ...
isNoteOn(m) == StatusNibble(m) = 9 /\ m[3] # 0

\* ... it is a note-off, as is every 0x8n message
isNoteOff(m) == StatusNibble(m) = 8 \/ (StatusNibble(m) = 9 /\ m[3] = 0)

getNoteNumber(m) == m[2]

getVelocity(m) == IF StatusNibble(m) \in {8, 9} THEN m[3] ELSE 0

initialByte(type, channel) == type + jlimit(0, 15, channel - 1)

validVelocity(v) == IF v < 127 THEN v ELSE 127

noteOn(channel, note, velocity) ==
    <<initialByte(144, channel), note % 128, validVelocity(velocity)>>

noteOff(channel, note, velocity) ==
    <<initialByte(128, channel), note % 128, validVelocity(velocity)>>

\* position is split into two 7-bit data bytes, least significant first
pitchWheel(channel, position) ==
    <<initialByte(224, channel), position % 128, (position \div 128) % 128>>

controllerEvent(channel, controller, value) ==
    <<initialByte(176, channel), controller % 128, value % 128>>

midiClock == <<248>>

(***************************************************************************)
(* juce::MidiBuffer: events ordered by sample position.                    *)
(***************************************************************************)
\* addEvent inserting before the events that share the position
addEventBefore(buf, m, pos) ==
    LET k == Cardinality({i \in 1..Len(buf) : buf[i].pos < pos})
    IN  SubSeq(buf, 1, k) \o <<[pos |-> pos, msg |-> m]>> \o SubSeq(buf, k + 1, Len(buf))

\* addEvent inserts after every event whose position is <= pos
addEvent(buf, m, pos) ==
    LET k == Cardinality({i \in 1..Len(buf) : buf[i].pos <= pos})
    IN  SubSeq(buf, 1, k) \o <<[pos |-> pos, msg |-> m]>> \o SubSeq(buf, k + 1, Len(buf))

\* A buffer keeps its events in one growable byte array: each event takes
\* its bytes and a header of a 32-bit sample position and a 16-bit length.
EventHeaderBytes == 6
eventBytes(m) == Len(m) + EventHeaderBytes

\* the array's capacity once it must hold used bytes: it is reallocated,
\* with room to spare, when the bytes do not fit
capacityFor(capacity, used) ==
    IF used > capacity THEN ((used + used \div 2 + 8) \div 8) * 8 ELSE capacity

\* the reallocations made while the events of out are added, one by one, to
\* a buffer holding used bytes in an array of the given capacity
RECURSIVE reallocations(_, _, _, _)
reallocations(out, i, used, capacity) ==
    IF i > Len(out) THEN 0
    ELSE LET need == used + eventBytes(out[i].msg)
         IN  (IF need > capacity THEN 1 ELSE 0) +
             reallocations(out, i + 1, need, capacityFor(capacity, need))

\* processedMidi is a local buffer, constructed empty: the heap allocations
\* a processBlock call makes to fill it with out
heapAllocations(out) == reallocations(out, 1, 0, 0)

(***************************************************************************)
(* The part of the engine the model carries: the channels and notes its    *)
(* input addresses.  The other slots of activeNotes and the other table    *)
(* entries are never touched and stay as constructed.                      *)
(***************************************************************************)
ChannelIndices == {0, 1}
NoteNumbers == {60, 61}

EmptyNote == [originalNote |-> -1, outputNote |-> -1, pitchBend |-> PitchBendCentre]

ZeroTable == [n \in NoteNumbers |-> 0]

(***************************************************************************)
(* Persisted state (PluginProcessor.cpp): NumNotes floats of table and one *)
(* float of range, written and read through juce memory streams.  A blob   *)
(* is the sequence of the floats its whole 4-byte groups hold, with the    *)
(* number of bytes left over after the last whole group.                   *)
(***************************************************************************)
NumNotes == 128
FloatBytes == 4

sizeInBytes(blob) == FloatBytes * Len(blob.floats) + blob.tail

\* the k-th readFloat of a stream over the blob: 0 once fewer than four
\* bytes are left
readFloat(blob, k) == IF k <= Len(blob.floats) THEN blob.floats[k] ELSE 0

\* getStateInformation writing the range ahead of the table
getStateInformationRangeFirst(table, range) ==
    [floats |-> [k \in 1..(NumNotes + 1) |->
                    IF k = 1 THEN range
                    ELSE IF (k - 2) \in NoteNumbers THEN table[k - 2] ELSE 0],
     tail |-> 0]

\* getStateInformation: the table in note order, then the range.  Entries
\* the model does not carry are written as constructed.
getStateInformation(table, range) ==
    [floats |-> [k \in 1..(NumNotes + 1) |->
                    IF k = NumNotes + 1 THEN range
                    ELSE IF (k - 1) \in NoteNumbers THEN table[k - 1] ELSE 0],
     tail |-> 0]

\* setStateInformation: what it hands to setTuningTable and setPitchBendRange
decodedTable(blob) == [n \in NoteNumbers |-> readFloat(blob, n + 1)]
decodedRange(blob) == readFloat(blob, NumNotes + 1)

(***************************************************************************)
(* The inputs the model draws from.                                        *)
(***************************************************************************)
MaxBlockLen == 2

SamplePositions == {0, 1}

InputMessages ==
    {noteOn(1, 60, 100), noteOn(1, 61, 100), noteOn(2, 60, 100),
     <<144, 60, 0>>,
     noteOff(1, 60, 64), noteOff(2, 60, 64),
     controllerEvent(1, 7, 100), pitchWheel(1, 0), midiClock}

SharpFlatTable == [n \in NoteNumbers |-> IF n = 60 THEN 100 ELSE -100]

TuningTables == {ZeroTable, SharpFlatTable}

BendRangeInputs == {0, 48}

\* the first n floats of a blob and tail more bytes
Truncated(blob, n, tail) == [floats |-> SubSeq(blob.floats, 1, n), tail |-> tail]

\* persisted blobs: a saved state (516 bytes) and an empty one
StateBlobs ==
    {getStateInformation(SharpFlatTable, 48),
     [floats |-> <<>>, tail |-> 0]}

\* for the control plane on its own: also a saved state cut after table[60]
\* (246 bytes), one with four more bytes (520), one cut inside the range
\* (515) and one whose range bytes are a NaN
WideStateBlobs ==
    StateBlobs \cup
    {Truncated(getStateInformation(SharpFlatTable, 48), 61, 2),
     [floats |-> getStateInformation(SharpFlatTable, 24).floats \o <<7>>, tail |-> 0],
     Truncated(getStateInformation(SharpFlatTable, 48), NumNotes, 3),
     getStateInformation(ZeroTable, NaN),
     getStateInformation(ZeroTable, 200)}

\* params of a midi.setPitchBendRange request, with and without "semitones"
RangeParams == {[semitones |-> 12], [semitones |-> 0], [semitones |-> 500], [other |-> 1]}

\* what a tuningTable property can be: an array of 128 numbers, an array one
\* short, something that is not an array
TuningArrays ==
    {[isArray |-> TRUE, size |-> NumNotes, cents |-> t] : t \in TuningTables} \cup
    {[isArray |-> TRUE, size |-> NumNotes - 1, cents |-> SharpFlatTable],
     [isArray |-> FALSE]}

\* requests: well-formed ones of the three methods, and a message that is
\* not an object, an object with no method, an unknown method, midi.setTuning
\* with a bad or no tuningTable, midi.setPitchBendRange with no semitones
Requests ==
    {[isObject |-> FALSE],
     [isObject |-> TRUE, params |-> [semitones |-> 12]],
     [isObject |-> TRUE, method |-> "midi.reset", params |-> [semitones |-> 12]],
     [isObject |-> TRUE, method |-> "midi.setTuning", params |-> [other |-> 1]],
     [isObject |-> TRUE, method |-> "getState", params |-> [other |-> 1]]} \cup
    {[isObject |-> TRUE, method |-> "midi.setTuning", params |-> [tuningTable |-> a]] :
         a \in TuningArrays} \cup
    {[isObject |-> TRUE, method |-> "midi.setPitchBendRange", params |-> p] :
         p \in RangeParams}

\* for the direct evaluations of calculatePitchBend
WideBendRangeInputs == {-5, 0, 1, 2, 12, 48, 95, 96, 200}

CentsInputs ==
    LET pos == {1, 50, 100, 138, 200, 1200, 2513, 4799, 4800, 4801, 9500, 9599,
                9600, 19200, 1000000, 26214200, 26214300, 26214500, 26214600,
                30000000, 2000000000}
    IN  {0} \cup pos \cup {-c : c \in pos}

\* calculatePitchBend, evaluated once for each cents value and each range
\* the model's setters can store
TableCents == CentsInputs \cup UNION {{t[n] : n \in NoteNumbers} : t \in TuningTables}
StoredRanges ==
    {DefaultPitchBendRange} \cup
    {jlimitFloat(MinPitchBendRange, MaxPitchBendRange, s) :
         s \in BendRangeInputs \cup WideBendRangeInputs}
PitchBendMemo ==
    [c \in TableCents |-> [r \in StoredRanges |-> calculatePitchBend(c, r)]]
pitchBendFor(c, range) ==
    IF c \in TableCents /\ range \in StoredRanges THEN PitchBendMemo[c][range]
    ELSE calculatePitchBend(c, range)


\* passThrough losing the event's sample position
passThroughAtZero(notes, out, message, samplePosition) ==
    {[notes |-> notes, out |-> [i \in 1..(Len(out) + 1) |->
                                   IF i = 1 THEN [pos |-> 0, msg |-> message]
                                   ELSE out[i - 1]]]}

\* processBlock's pass-through: the event goes out as it came in
passThrough(notes, out, message, samplePosition) ==
    {[notes |-> notes, out |-> addEvent(out, message, samplePosition)]}

\* onNoteOn that records a note only in an empty slot
onNoteOnKeepingRecord(table, range, notes, out, channel, message, samplePosition) ==
    LET note == getNoteNumber(message)
        velocity == getVelocity(message)
    IN  {[notes |-> IF notes[channel][note].originalNote >= 0 THEN notes
                    ELSE [notes EXCEPT ![channel][note] =
                             [originalNote |-> note, outputNote |-> note,
                              pitchBend |-> pitchBend]],
          out |-> addEvent(addEvent(out, pitchWheel(channel + 1, pitchBend),
                                    samplePosition),
                           noteOn(channel + 1, note, velocity),
                           samplePosition)] :
            pitchBend \in pitchBendFor(table[note], range)}

\* onNoteOn that records the next note up as the note to end
onNoteOnRemapping(table, range, notes, out, channel, message, samplePosition) ==
    LET note == getNoteNumber(message)
        velocity == getVelocity(message)
    IN  {[notes |-> [notes EXCEPT ![channel][note] =
                        [originalNote |-> note, outputNote |-> (note + 1) % 128,
                         pitchBend |-> pitchBend]],
          out |-> addEvent(addEvent(out, pitchWheel(channel + 1, pitchBend),
                                    samplePosition),
                           noteOn(channel + 1, note, velocity),
                           samplePosition)] :
            pitchBend \in pitchBendFor(table[note], range)}

\* The note-on branch: bend from the table, record the note, emit the bend
\* and then the note-on.  One result per value the bend's cast can yield.
onNoteOn(table, range, notes, out, channel, message, samplePosition) ==
    LET note == getNoteNumber(message)
        velocity == getVelocity(message)
    IN  {[notes |-> [notes EXCEPT ![channel][note] =
                        [originalNote |-> note, outputNote |-> note,
                         pitchBend |-> pitchBend]],
          out |-> addEvent(addEvent(out, pitchWheel(channel + 1, pitchBend),
                                    samplePosition),
                           noteOn(channel + 1, note, velocity),
                           samplePosition)] :
            pitchBend \in pitchBendFor(table[note], range)}

\* onNoteOff that clears every slot of the channel when it ends a note
onNoteOffClearingChannel(notes, out, channel, message, samplePosition) ==
    LET note == getNoteNumber(message)
        velocity == getVelocity(message)
        activeNote == notes[channel][note]
    IN  IF activeNote.originalNote >= 0
        THEN {[notes |-> [notes EXCEPT ![channel] = [n \in NoteNumbers |-> EmptyNote]],
               out |-> addEvent(out,
                                noteOff(channel + 1, activeNote.outputNote, velocity),
                                samplePosition)]}
        ELSE passThrough(notes, out, message, samplePosition)

\* onNoteOff that ends a recorded note without clearing its slot
onNoteOffKeepingRecord(notes, out, channel, message, samplePosition) ==
    LET note == getNoteNumber(message)
        velocity == getVelocity(message)
        activeNote == notes[channel][note]
    IN  IF activeNote.originalNote >= 0
        THEN {[notes |-> notes,
               out |-> addEvent(out,
                                noteOff(channel + 1, activeNote.outputNote, velocity),
                                samplePosition)]}
        ELSE passThrough(notes, out, message, samplePosition)

\* onNoteOff that rebuilds an unrecorded note-off instead of forwarding it
onNoteOffRebuilding(notes, out, channel, message, samplePosition) ==
    LET note == getNoteNumber(message)
        velocity == getVelocity(message)
        activeNote == notes[channel][note]
    IN  IF activeNote.originalNote >= 0
        THEN {[notes |-> [notes EXCEPT ![channel][note] = EmptyNote],
               out |-> addEvent(out,
                                noteOff(channel + 1, activeNote.outputNote, velocity),
                                samplePosition)]}
        ELSE {[notes |-> notes,
               out |-> addEvent(out, noteOff(channel + 1, note, velocity),
                                samplePosition)]}

\* onNoteOff that drops the note-off of a note it has no record of
onNoteOffDroppingUntracked(notes, out, channel, message, samplePosition) ==
    LET note == getNoteNumber(message)
        velocity == getVelocity(message)
        activeNote == notes[channel][note]
    IN  IF activeNote.originalNote >= 0
        THEN {[notes |-> [notes EXCEPT ![channel][note] = EmptyNote],
               out |-> addEvent(out,
                                noteOff(channel + 1, activeNote.outputNote, velocity),
                                samplePosition)]}
        ELSE {[notes |-> notes, out |-> out]}

\* The note-off branch: a recorded note is ended and its slot cleared, an
\* unrecorded one is passed through
onNoteOff(notes, out, channel, message, samplePosition) ==
    LET note == getNoteNumber(message)
        velocity == getVelocity(message)
        activeNote == notes[channel][note]
    IN  IF activeNote.originalNote >= 0
        THEN {[notes |-> [notes EXCEPT ![channel][note] = EmptyNote],
               out |-> addEvent(out,
                                noteOff(channel + 1, activeNote.outputNote, velocity),
                                samplePosition)]}
        ELSE passThrough(notes, out, message, samplePosition)

\* The body of processBlock's loop for one event: the set of the
\* [notes, out] it can leave behind
processEvent(table, range, notes, out, ev) ==
    LET message == ev.msg
        samplePosition == ev.pos
        channel == getChannel(message) - 1
    IN  IF channel < 0 \/ channel >= NumChannels
        THEN passThrough(notes, out, message, samplePosition)
        ELSE IF isNoteOn(message)
        THEN onNoteOn(table, range, notes, out, channel, message, samplePosition)
        ELSE IF isNoteOff(message)
        THEN onNoteOff(notes, out, channel, message, samplePosition)
        ELSE passThrough(notes, out, message, samplePosition)

\* The loop over the buffer from event i on
RECURSIVE processFrom(_, _, _, _, _, _)
processFrom(table, range, notes, out, buf, i) ==
    IF i > Len(buf) THEN {[notes |-> notes, out |-> out]}
    ELSE UNION {processFrom(table, range, r.notes, r.out, buf, i + 1) :
                    r \in processEvent(table, range, notes, out, buf[i])}

\* processBlock visiting the events of the buffer last to first
processBlockLastToFirst(table, range, notes, buf) ==
    processFrom(table, range, notes, <<>>,
                [i \in 1..Len(buf) |-> buf[Len(buf) + 1 - i]], 1)

\* processBlock: the [notes, out] it can end with; out is swapped into the
\* caller's buffer
processBlock(table, range, notes, buf) ==
    processFrom(table, range, notes, <<>>, buf, 1)

(***************************************************************************)
(* Reading a buffer event by event, from the bytes alone: what the         *)
(* properties below call a note-on, a note-off and the slot an event is    *)
(* addressed to.  Channels are 1..16 here, as on the wire.                 *)
(***************************************************************************)
Slots == {<<c + 1, n>> : c \in ChannelIndices, n \in NoteNumbers}

HasChannel(m) == m[1] \in 128..239
ChannelOf(m) == (m[1] % 16) + 1
NoteOnEvent(m) == m[1] \in 144..159 /\ m[3] > 0
NoteOffEvent(m) == m[1] \in 128..143 \/ (m[1] \in 144..159 /\ m[3] = 0)
Addressed(m, slot) ==
    (NoteOnEvent(m) \/ NoteOffEvent(m)) /\ ChannelOf(m) = slot[1] /\ m[2] = slot[2]

\* index of the latest of buf[1..upto] addressed to slot, 0 if there is none
LastAddressed(buf, upto, slot) ==
    LET S == {i \in 1..upto : Addressed(buf[i].msg, slot)}
    IN  IF S = {} THEN 0 ELSE CHOOSE i \in S : \A k \in S : k <= i

(***************************************************************************)
(* State machine.                                                          *)
(***************************************************************************)
Init ==
    /\ tuningTable = ZeroTable
    /\ pitchBendRange = DefaultPitchBendRange
    /\ activeNotes = [c \in ChannelIndices |-> [n \in NoteNumbers |-> EmptyNote]]
    /\ midiMessages = <<>>
    /\ lastCall = [op |-> "construct"]
    /\ lastWasOn = [s \in Slots |-> FALSE]
    /\ bendCall = [cents |-> 0, range |-> DefaultPitchBendRange,
                   result |-> PitchBendCentre]
    /\ audio = [running |-> FALSE]
    /\ control = [copying |-> FALSE]
    /\ tableSet = ZeroTable
    /\ destData = [written |-> FALSE]

\* the engine as an operation finds it; lastCall keeps it for the
\* properties that compare the state after a call with the state before
Before ==
    [table |-> tuningTable, range |-> pitchBendRange, notes |-> activeNotes,
     buffer |-> midiMessages]

\* the host is filling the buffer / processBlock has just rewritten it
Filling == lastCall.op = "addEvent"
Done == lastCall.op = "processBlock"
Idle == ~Filling /\ ~Done

\* The host puts an event into the buffer it is about to hand to processBlock
HostAddEvent(m, pos) ==
    /\ ~Done
    /\ ~audio.running
    /\ Len(midiMessages) < MaxBlockLen
    /\ midiMessages' = addEvent(midiMessages, m, pos)
    /\ lastCall' = [op |-> "addEvent",
                    afterReset |-> IF Filling THEN lastCall.afterReset
                                   ELSE lastCall.op = "reset"]
    /\ UNCHANGED <<destData, audio, control, tableSet, tuningTable, pitchBendRange, activeNotes,
                   lastWasOn, bendCall>>

\* The host takes the rewritten events out of the buffer
HostClear ==
    /\ Done
    /\ midiMessages' = <<>>
    /\ lastCall' = [op |-> "clear"]
    /\ UNCHANGED <<destData, audio, control, tableSet, tuningTable, pitchBendRange, activeNotes,
                   lastWasOn, bendCall>>

ProcessBlock ==
    /\ ~Done
    /\ \E r \in processBlock(tuningTable, pitchBendRange, activeNotes, midiMessages) :
          /\ activeNotes' = r.notes
          /\ midiMessages' = r.out
          /\ lastCall' = [op |-> "processBlock", input |-> midiMessages,
                          notes |-> activeNotes, table |-> tuningTable,
                          range |-> pitchBendRange,
                          afterReset |-> IF Filling THEN lastCall.afterReset
                                         ELSE lastCall.op = "reset",
                          allocations |-> heapAllocations(r.out)]
    /\ lastWasOn' = [s \in Slots |->
                        LET i == LastAddressed(midiMessages, Len(midiMessages), s)
                        IN  IF i = 0 THEN lastWasOn[s]
                            ELSE NoteOnEvent(midiMessages[i].msg)]
    /\ UNCHANGED <<destData, audio, control, tableSet, tuningTable, pitchBendRange, bendCall>>

\* SetTuningTable that also moves the recorded bend of every held note to
\* the new table
SetTuningTableRebending(t) ==
    /\ Idle
    /\ tuningTable' = t
    /\ activeNotes' =
           [c \in ChannelIndices |-> [n \in NoteNumbers |->
               IF activeNotes[c][n].originalNote >= 0
               THEN [activeNotes[c][n] EXCEPT
                        !.pitchBend = CHOOSE v \in pitchBendFor(t[n], pitchBendRange) : TRUE]
               ELSE activeNotes[c][n]]]
    /\ lastCall' = [op |-> "setTuningTable", before |-> Before, table |-> t]
    /\ tableSet' = t
    /\ UNCHANGED <<destData, audio, control, pitchBendRange, midiMessages, lastWasOn, bendCall>>

\* setTuningTable: the table is assigned, nothing else is touched
SetTuningTable(t) ==
    /\ Idle
    /\ tuningTable' = t
    /\ lastCall' = [op |-> "setTuningTable", before |-> Before, table |-> t]
    /\ tableSet' = t
    /\ UNCHANGED <<destData, audio, control, pitchBendRange, activeNotes, midiMessages, lastWasOn,
                   bendCall>>

SetPitchBendRange(semitones) ==
    /\ Idle
    /\ pitchBendRange' = jlimitFloat(MinPitchBendRange, MaxPitchBendRange, semitones)
    /\ lastCall' = [op |-> "setPitchBendRange", before |-> Before,
                    semitones |-> semitones]
    /\ UNCHANGED <<destData, audio, control, tableSet, tuningTable, activeNotes, midiMessages,
                   lastWasOn, bendCall>>

\* Reset that puts the whole engine back as constructed, table included
ResetAsConstructed ==
    /\ Idle
    /\ activeNotes' = [c \in ChannelIndices |-> [n \in NoteNumbers |-> EmptyNote]]
    /\ tuningTable' = ZeroTable
    /\ lastCall' = [op |-> "reset", before |-> Before, previous |-> lastCall.op]
    /\ lastWasOn' = [s \in Slots |-> FALSE]
    /\ UNCHANGED <<destData, audio, control, tableSet, pitchBendRange, midiMessages, bendCall>>

\* Reset that marks the slots as free without restoring their other fields
ResetOriginalNoteOnly ==
    /\ Idle
    /\ activeNotes' = [c \in ChannelIndices |-> [n \in NoteNumbers |->
                          [activeNotes[c][n] EXCEPT !.originalNote = -1]]]
    /\ lastCall' = [op |-> "reset", before |-> Before, previous |-> lastCall.op]
    /\ lastWasOn' = [s \in Slots |-> FALSE]
    /\ UNCHANGED <<destData, audio, control, tableSet, tuningTable, pitchBendRange, midiMessages,
                   bendCall>>

\* reset: every slot becomes a default-constructed ActiveNote
Reset ==
    /\ Idle
    /\ activeNotes' = [c \in ChannelIndices |-> [n \in NoteNumbers |-> EmptyNote]]
    /\ lastCall' = [op |-> "reset", before |-> Before, previous |-> lastCall.op]
    /\ lastWasOn' = [s \in Slots |-> FALSE]
    /\ UNCHANGED <<destData, audio, control, tableSet, tuningTable, pitchBendRange, midiMessages,
                   bendCall>>

\* setStateInformation: 128 floats and one more are read from the blob,
\* however long it is, and handed to the two setters
SetStateInformation(blob) ==
    /\ Idle
    /\ tuningTable' = decodedTable(blob)
    /\ pitchBendRange' =
           jlimitFloat(MinPitchBendRange, MaxPitchBendRange, decodedRange(blob))
    /\ lastCall' = [op |-> "setStateInformation", before |-> Before,
                    blob |-> blob, sizeInBytes |-> sizeInBytes(blob),
                    table |-> decodedTable(blob),
                    semitones |-> decodedRange(blob)]
    /\ tableSet' = decodedTable(blob)
    /\ UNCHANGED <<destData, audio, control, activeNotes, midiMessages, lastWasOn, bendCall>>

\* The host saves the state: getStateInformation fills the memory block the
\* host hands it, an empty one, from the engine's table and range
GetStateInformation ==
    /\ Idle
    /\ destData' = [written |-> TRUE,
                    blob |-> getStateInformation(tuningTable, pitchBendRange),
                    table |-> tuningTable, range |-> pitchBendRange]
    /\ lastCall' = [op |-> "getStateInformation", before |-> Before]
    /\ UNCHANGED <<audio, control, tableSet, tuningTable, pitchBendRange, activeNotes,
                   midiMessages, lastWasOn, bendCall>>

\* The host restores the state it saved
RestoreState ==
    /\ destData.written
    /\ SetStateInformation(destData.blob)

\* A midi.setPitchBendRange request: "semitones" of the params, 48 when
\* the params have none, goes to the processor's setter and on to the engine's
RpcDefaultSemitones == 48

RpcSetPitchBendRange(params) ==
    LET range == IF "semitones" \in DOMAIN params THEN params.semitones
                 ELSE RpcDefaultSemitones
    IN  /\ Idle
        /\ pitchBendRange' = jlimitFloat(MinPitchBendRange, MaxPitchBendRange, range)
        /\ lastCall' = [op |-> "midi.setPitchBendRange", before |-> Before,
                        semitones |-> range]
        /\ UNCHANGED <<destData, audio, control, tableSet, tuningTable, activeNotes, midiMessages,
                   lastWasOn, bendCall>>

(***************************************************************************)
(* RpcBridge::handleRequest.  A request is what juce::JSON::parse makes of *)
(* the message: not an object, or an object that may have a method and     *)
(* params.  A tuningTable of the params is an array of some size or not an *)
(* array; the model keeps the cents of the notes it carries.               *)
(***************************************************************************)
ParseError == -32700
InvalidRequest == -32600
MethodNotFound == -32601
InternalError == -32603

\* handleSetTuning's test of the tuningTable property (void when absent)
acceptsTuning(params) ==
    /\ "tuningTable" \in DOMAIN params
    /\ params.tuningTable.isArray
    /\ params.tuningTable.size = NumNotes

\* handleSetPitchBendRange's argument: "semitones", 48 when there is none
requestedSemitones(params) ==
    IF "semitones" \in DOMAIN params THEN params.semitones ELSE RpcDefaultSemitones

\* the response: an error with its code, or a result
handleRequest(request, table, range) ==
    IF ~request.isObject THEN [error |-> ParseError]
    ELSE IF "method" \notin DOMAIN request THEN [error |-> InvalidRequest]
    ELSE IF request.method = "midi.setTuning"
    THEN IF acceptsTuning(request.params) THEN [result |-> TRUE]
         ELSE [error |-> InternalError]
    ELSE IF request.method = "midi.setPitchBendRange" THEN [result |-> TRUE]
    ELSE IF request.method = "getState"
    THEN [result |-> [pitchBendRange |-> range, tuningTable |-> table]]
    ELSE [error |-> MethodNotFound]

\* the request sets the table: midi.setTuning with an array of 128
SetsTuning(request) ==
    /\ request.isObject
    /\ "method" \in DOMAIN request
    /\ request.method = "midi.setTuning"
    /\ acceptsTuning(request.params)

\* the request sets the range: midi.setPitchBendRange, whatever its params
SetsRange(request) ==
    /\ request.isObject
    /\ "method" \in DOMAIN request
    /\ request.method = "midi.setPitchBendRange"

\* A message from the page is handled, on the message thread
HandleRequest(request) ==
    /\ Idle
    /\ tuningTable' = IF SetsTuning(request) THEN request.params.tuningTable.cents
                      ELSE tuningTable
    /\ tableSet' = IF SetsTuning(request) THEN request.params.tuningTable.cents
                   ELSE tableSet
    /\ pitchBendRange' =
           IF SetsRange(request)
           THEN jlimitFloat(MinPitchBendRange, MaxPitchBendRange,
                            requestedSemitones(request.params))
           ELSE pitchBendRange
    /\ lastCall' = [op |-> "handleRequest", before |-> Before, request |-> request,
                    response |-> handleRequest(request, tuningTable, pitchBendRange)]
    /\ UNCHANGED <<destData, audio, control, activeNotes, midiMessages, lastWasOn,
                   bendCall>>

\* One evaluation of calculatePitchBend on its own
CalculatePitchBend(c) ==
    /\ \E v \in pitchBendFor(c, pitchBendRange) :
          bendCall' = [cents |-> c, range |-> pitchBendRange, result |-> v]
    /\ UNCHANGED <<destData, audio, control, tableSet, tuningTable, pitchBendRange, activeNotes,
                   midiMessages, lastCall,
                   lastWasOn>>

Next ==
    \/ \E m \in InputMessages, pos \in SamplePositions : HostAddEvent(m, pos)
    \/ HostClear
    \/ ProcessBlock
    \/ \E t \in TuningTables : SetTuningTable(t)
    \/ \E s \in BendRangeInputs : SetPitchBendRange(s)
    \/ Reset
    \/ \E b \in StateBlobs : SetStateInformation(b)

Spec == Init /\ [][Next]_vars

\* The writers of the table and the range on their own: the setters, the
\* RPC request and restored state, over a wider choice of arguments
NextControl ==
    \/ \E t \in TuningTables : SetTuningTable(t)
    \/ \E s \in WideBendRangeInputs : SetPitchBendRange(s)
    \/ \E p \in RangeParams : RpcSetPitchBendRange(p)
    \/ \E b \in WideStateBlobs : SetStateInformation(b)
    \/ \E q \in Requests : HandleRequest(q)

SpecControl == Init /\ [][NextControl]_vars

(***************************************************************************)
(* A session: an engine playing one key, with note-offs of both kinds, a   *)
(* note-off of a key never played and a controller among its events, its   *)
(* table and range set and its state saved and restored between blocks.    *)
(***************************************************************************)
SavedSessionMessages ==
    {noteOn(1, 60, 100), noteOff(1, 60, 64), noteOff(1, 61, 64),
     controllerEvent(1, 7, 100), <<144, 60, 0>>}

NextPersist ==
    \/ \E m \in SavedSessionMessages : HostAddEvent(m, 0)
    \/ HostClear
    \/ ProcessBlock
    \/ \E t \in TuningTables : SetTuningTable(t)
    \/ \E s \in BendRangeInputs : SetPitchBendRange(s)
    \/ \E b \in WideStateBlobs : SetStateInformation(b)
    \/ GetStateInformation
    \/ RestoreState

SpecPersist == Init /\ [][NextPersist]_vars

(***************************************************************************)
(* processBlock on the audio thread while setTuningTable runs on the       *)
(* control thread.  Nothing orders the two: tuningTable = cents copies the *)
(* 128 floats one after another and processBlock reads tuningTable[note]   *)
(* of whatever is there when it reaches a note-on.                         *)
(***************************************************************************)
MaxOverlappingWrites == 1

\* the blocks the host hands over while the table is being written
OverlapMessages == {noteOn(1, 60, 100), noteOn(1, 61, 100), noteOff(1, 60, 64)}

\* processBlock is entered: processedMidi is empty
AudioEnter ==
    /\ ~audio.running
    /\ ~Done
    /\ audio' = [running |-> TRUE, next |-> 1, processedMidi |-> <<>>,
                 notes |-> activeNotes, table |-> tuningTable,
                 writeUnderWay |-> control.copying, overlapped |-> <<>>]
    /\ UNCHANGED <<destData, tableSet, tuningTable, pitchBendRange, activeNotes, midiMessages, lastCall,
                   lastWasOn, bendCall, control>>

\* one turn of processBlock's loop, with the table as it is now
AudioStep ==
    /\ audio.running
    /\ audio.next <= Len(midiMessages)
    /\ \E r \in processEvent(tuningTable, pitchBendRange, activeNotes,
                              audio.processedMidi, midiMessages[audio.next]) :
          /\ activeNotes' = r.notes
          /\ audio' = [audio EXCEPT !.next = @ + 1, !.processedMidi = r.out]
    /\ UNCHANGED <<destData, tableSet, tuningTable, pitchBendRange, midiMessages, lastCall, lastWasOn,
                   bendCall, control>>

\* the loop is over: processedMidi is swapped into the caller's buffer
AudioReturn ==
    /\ audio.running
    /\ audio.next > Len(midiMessages)
    /\ midiMessages' = audio.processedMidi
    /\ audio' = [running |-> FALSE]
    /\ lastCall' = [op |-> "processBlock", input |-> midiMessages,
                    notes |-> audio.notes, table |-> audio.table,
                    range |-> pitchBendRange,
                    writeUnderWay |-> audio.writeUnderWay,
                    overlapped |-> audio.overlapped]
    /\ lastWasOn' = [s \in Slots |->
                        LET i == LastAddressed(midiMessages, Len(midiMessages), s)
                        IN  IF i = 0 THEN lastWasOn[s]
                            ELSE NoteOnEvent(midiMessages[i].msg)]
    /\ UNCHANGED <<destData, tableSet, tuningTable, pitchBendRange, activeNotes, bendCall, control>>

\* setTuningTable(cents) is entered
ControlEnter(cents) ==
    /\ ~control.copying
    /\ audio.running => Len(audio.overlapped) < MaxOverlappingWrites
    /\ control' = [copying |-> TRUE, cents |-> cents, copied |-> {}]
    /\ audio' = IF audio.running
                THEN [audio EXCEPT !.overlapped = Append(@, cents)]
                ELSE audio
    /\ UNCHANGED <<destData, tableSet, tuningTable, pitchBendRange, activeNotes, midiMessages, lastCall,
                   lastWasOn, bendCall>>

\* the assignment copies the next entry, in index order
ControlCopy ==
    /\ control.copying
    /\ control.copied # NoteNumbers
    /\ LET n == CHOOSE k \in NoteNumbers \ control.copied :
                    \A j \in NoteNumbers \ control.copied : k <= j
       IN  /\ tuningTable' = [tuningTable EXCEPT ![n] = control.cents[n]]
           /\ control' = [control EXCEPT !.copied = @ \cup {n}]
    /\ UNCHANGED <<destData, tableSet, pitchBendRange, activeNotes, midiMessages, lastCall, lastWasOn,
                   bendCall, audio>>

\* every entry is copied: setTuningTable returns
ControlReturn ==
    /\ control.copying
    /\ control.copied = NoteNumbers
    /\ control' = [copying |-> FALSE]
    /\ tableSet' = control.cents
    /\ UNCHANGED <<destData, tuningTable, pitchBendRange, activeNotes, midiMessages, lastCall,
                   lastWasOn, bendCall, audio>>

NextConcurrent ==
    \/ \E m \in OverlapMessages : HostAddEvent(m, 0)
    \/ HostClear
    \/ AudioEnter
    \/ AudioStep
    \/ AudioReturn
    \/ \E t \in TuningTables : ControlEnter(t)
    \/ ControlCopy
    \/ ControlReturn

SpecConcurrent == Init /\ [][NextConcurrent]_vars

\* calculatePitchBend alone, over every range the setter can leave behind
NextBend ==
    \/ \E s \in WideBendRangeInputs : SetPitchBendRange(s)
    \/ \E c \in CentsInputs : CalculatePitchBend(c)

SpecBend == Init /\ [][NextBend]_vars

(***************************************************************************)
(* What a processBlock call was given and what it left, read in a state    *)
(* right after the call (Done): the input block and the slots before the   *)
(* call are in lastCall, the rewritten block is midiMessages; the table    *)
(* and the range are the ones the call used, no setter having run since.   *)
(***************************************************************************)
SlotOf(m) == <<ChannelOf(m), m[2]>>
Record(notes, slot) == notes[slot[1] - 1][slot[2]]
IsActive(rec) == rec.originalNote >= 0

\* every note-on puts two events out, every other event one
NoteOnsBefore(buf, i) == Cardinality({k \in 1..(i - 1) : NoteOnEvent(buf[k].msg)})
OutIndex(buf, i) == i + NoteOnsBefore(buf, i)
OutLen(buf) == Len(buf) + NoteOnsBefore(buf, Len(buf) + 1)

\* the slot is Active when event i of the block is reached
ActiveBefore(pre, buf, i, slot) ==
    LET k == LastAddressed(buf, i - 1, slot)
    IN  IF k = 0 THEN IsActive(Record(pre, slot)) ELSE NoteOnEvent(buf[k].msg)

IsBendOn(m, c) == Len(m) = 3 /\ m[1] = 224 + (c - 1) /\ m[2] < 128 /\ m[3] < 128
BendValue(m) == m[2] + 128 * m[3]

\* out[j], out[j+1] are the bend and the note-on for the note-on ev
EmitsBendThenNote(out, j, ev) ==
    /\ j + 1 <= Len(out)
    /\ out[j].pos = ev.pos
    /\ IsBendOn(out[j].msg, ChannelOf(ev.msg))
    /\ out[j + 1] = ev

\* C1: every note-on of the block on a channel 1..16 puts out exactly two
\* events at its own sample position, first a pitch bend on its channel
\* whose value is calculatePitchBend of the table entry of its note, with
\* the table and range in force, then the note-on itself (channel, note and
\* velocity as received).
C1_NoteOnEmitsBendThenNote ==
    Done =>
        LET in == lastCall.input
        IN  /\ Len(midiMessages) = OutLen(in)
            /\ \A i \in 1..Len(in) :
                  NoteOnEvent(in[i].msg) =>
                      LET j == OutIndex(in, i)
                      IN  /\ EmitsBendThenNote(midiMessages, j, in[i])
                          /\ BendValue(midiMessages[j].msg) \in
                                 pitchBendFor(tuningTable[in[i].msg[2]], pitchBendRange)

\* a block with two note-ons at one position, one of them with a non-zero
\* table entry, has been rewritten
C1_Witness ==
    /\ Done
    /\ Len(lastCall.input) = 2
    /\ \A i \in 1..2 : NoteOnEvent(lastCall.input[i].msg)
    /\ lastCall.input[1].pos = lastCall.input[2].pos
    /\ tuningTable[lastCall.input[1].msg[2]] # 0
    /\ Len(midiMessages) = 4

\* the latest pitch bend on channel c in a buffer, 0 if it has none
LastBendIndex(buf, c) ==
    LET S == {j \in 1..Len(buf) : IsBendOn(buf[j].msg, c)}
    IN  IF S = {} THEN 0 ELSE CHOOSE j \in S : \A k \in S : k <= j

\* C2: each sounding note plays at its own table pitch: for every Active
\* slot (c, n) the most recent pitch bend of the output stream on channel c
\* carries the bend recorded in the slot.  Read at the end of a call whose
\* output has a bend on channel c, where the most recent bend of the
\* stream is the last one of that output.
C2_ActiveNoteKeepsItsBend ==
    Done =>
        \A s \in Slots :
            LET j == LastBendIndex(midiMessages, s[1])
            IN  (IsActive(Record(activeNotes, s)) /\ j # 0) =>
                    BendValue(midiMessages[j].msg) = Record(activeNotes, s).pitchBend

\* C3: a note-off for an Active slot (c, n), with velocity v at position t,
\* puts out exactly one event, the note-off of channel c, note n, velocity
\* v at t, and no pitch bend; the slot is empty afterwards (until a later
\* note-on of the block refills it).
C3_Pairing ==
    Done =>
        LET in == lastCall.input
        IN  \A i \in 1..Len(in) :
                LET m == in[i].msg
                IN  (NoteOffEvent(m) /\ ActiveBefore(lastCall.notes, in, i, SlotOf(m))) =>
                        /\ Len(midiMessages) = OutLen(in)
                        /\ midiMessages[OutIndex(in, i)] =
                               [pos |-> in[i].pos,
                                msg |-> <<128 + (ChannelOf(m) - 1), m[2], m[3]>>]
                        /\ LastAddressed(in, Len(in), SlotOf(m)) = i =>
                               Record(activeNotes, SlotOf(m)) = EmptyNote

\* a note-off with a non-zero velocity has ended a note that an earlier
\* call started
C3_Witness ==
    /\ Done
    /\ \E i \in 1..Len(lastCall.input) :
          LET m == lastCall.input[i].msg
          IN  /\ NoteOffEvent(m) /\ m[3] > 0
              /\ LastAddressed(lastCall.input, i - 1, SlotOf(m)) = 0
              /\ IsActive(Record(lastCall.notes, SlotOf(m)))
              /\ ~IsActive(Record(activeNotes, SlotOf(m)))

\* C4: every slot is Idle at construction and is Active exactly when the
\* latest note-on or note-off event addressed to it since construction or
\* the last reset was a note-on; a call changes no slot that none of its
\* events addresses.
C4_SlotStateMachine ==
    /\ \A s \in Slots : IsActive(Record(activeNotes, s)) <=> lastWasOn[s]
    /\ lastCall.op = "construct" => \A s \in Slots : Record(activeNotes, s) = EmptyNote
    /\ Done =>
          \A s \in Slots :
              LastAddressed(lastCall.input, Len(lastCall.input), s) = 0 =>
                  Record(activeNotes, s) = Record(lastCall.notes, s)

\* one call has taken a slot from Active to Idle while another slot, which
\* the call does not address, stays Active
C4_Witness ==
    /\ Done
    /\ \E s, t \in Slots :
          /\ s # t
          /\ LastAddressed(lastCall.input, Len(lastCall.input), s) = 0
          /\ lastWasOn[s] /\ IsActive(Record(activeNotes, s))
          /\ LastAddressed(lastCall.input, Len(lastCall.input), t) # 0
          /\ IsActive(Record(lastCall.notes, t))
          /\ ~lastWasOn[t] /\ ~IsActive(Record(activeNotes, t))

\* the events of the block before i leave the slots as the call found them
\* when none of them is a note-on or the note-off of an Active slot
NoSlotTouched(pre, buf) ==
    \A i \in 1..Len(buf) :
        LET m == buf[i].msg
        IN  \/ ~HasChannel(m)
            \/ ~NoteOnEvent(m) /\ ~NoteOffEvent(m)
            \/ NoteOffEvent(m) /\ ~ActiveBefore(pre, buf, i, SlotOf(m))

\* C5: a note-off for a slot that is empty is forwarded as it came (same
\* bytes, same position), with no pitch bend, and leaves the slots as they
\* were.
C5_UntrackedNoteOff ==
    Done =>
        LET in == lastCall.input
        IN  /\ \A i \in 1..Len(in) :
                  LET m == in[i].msg
                  IN  (NoteOffEvent(m) /\ ~ActiveBefore(lastCall.notes, in, i, SlotOf(m))) =>
                          /\ Len(midiMessages) = OutLen(in)
                          /\ midiMessages[OutIndex(in, i)] = in[i]
                          /\ LastAddressed(in, Len(in), SlotOf(m)) = i =>
                                 ~IsActive(Record(activeNotes, SlotOf(m)))
            /\ NoSlotTouched(lastCall.notes, in) => activeNotes = lastCall.notes

\* a velocity-0 note-on (a note-off on the wire) for an empty slot has been
\* forwarded while another slot is Active
C5_Witness ==
    /\ Done
    /\ \E i \in 1..Len(lastCall.input) :
          LET m == lastCall.input[i].msg
          IN  /\ NoteOffEvent(m) /\ m[1] \in 144..159
              /\ ~ActiveBefore(lastCall.notes, lastCall.input, i, SlotOf(m))
              /\ midiMessages[OutIndex(lastCall.input, i)].msg = m
    /\ \E s \in Slots : IsActive(Record(activeNotes, s))
    /\ NoSlotTouched(lastCall.notes, lastCall.input)

IsOtherEvent(m) == ~HasChannel(m) \/ (~NoteOnEvent(m) /\ ~NoteOffEvent(m))

\* C6: an event that is neither a note-on nor a note-off, or whose status
\* has no channel, goes out exactly once, unchanged, at its own position,
\* whatever the table and the range are, and changes no slot.
C6_PassThrough ==
    Done =>
        LET in == lastCall.input
        IN  /\ \A i \in 1..Len(in) :
                  IsOtherEvent(in[i].msg) =>
                      /\ Len(midiMessages) = OutLen(in)
                      /\ midiMessages[OutIndex(in, i)] = in[i]
            /\ (\A i \in 1..Len(in) : IsOtherEvent(in[i].msg)) =>
                  /\ midiMessages = in
                  /\ activeNotes = lastCall.notes

\* a system message and a channel message that is no note, at position 1,
\* have gone through under a non-zero table while a note is held
C6_Witness ==
    /\ Done
    /\ Len(lastCall.input) = 2
    /\ ~HasChannel(lastCall.input[1].msg)
    /\ HasChannel(lastCall.input[2].msg) /\ IsOtherEvent(lastCall.input[2].msg)
    /\ lastCall.input[1].pos = 1
    /\ tuningTable # ZeroTable
    /\ \E s \in Slots : IsActive(Record(activeNotes, s))
    /\ midiMessages = lastCall.input

\* C7: a note-on for a slot that is already Active puts out its own full
\* bend + note-on pair, as the note-on before it did; the slot then holds
\* the second note-on's state alone, with the bend of the table in force at
\* the second note-on; one following note-off empties the slot and a second
\* one is forwarded as untracked.
C7_Retrigger ==
    Done =>
        LET in == lastCall.input
            out == midiMessages
        IN  \A k \in 1..Len(in) :
                LET m == in[k].msg
                    s == SlotOf(m)
                    i == LastAddressed(in, k - 1, s)
                IN  /\ (NoteOnEvent(m) /\ ActiveBefore(lastCall.notes, in, k, s)) =>
                          /\ EmitsBendThenNote(out, OutIndex(in, k), in[k])
                          /\ i # 0 => EmitsBendThenNote(out, OutIndex(in, i), in[i])
                          /\ LastAddressed(in, Len(in), s) = k =>
                                /\ Record(activeNotes, s) =
                                       [originalNote |-> m[2], outputNote |-> m[2],
                                        pitchBend |-> BendValue(out[OutIndex(in, k)].msg)]
                                /\ Record(activeNotes, s).pitchBend \in
                                       pitchBendFor(tuningTable[m[2]], pitchBendRange)
                    /\ (NoteOffEvent(m) /\ i # 0 /\ NoteOnEvent(in[i].msg)) =>
                          /\ out[OutIndex(in, k)].msg = <<128 + (s[1] - 1), m[2], m[3]>>
                          /\ LastAddressed(in, Len(in), s) = k =>
                                Record(activeNotes, s) = EmptyNote
                    /\ (NoteOffEvent(m) /\ i # 0 /\ NoteOffEvent(in[i].msg)) =>
                          out[OutIndex(in, k)] = in[k]

\* a note is retriggered after the table changed: the slot held the bend of
\* the first note-on before the call and holds the second's after it
C7_Witness ==
    /\ Done
    /\ \E k \in 1..Len(lastCall.input) :
          LET m == lastCall.input[k].msg
          IN  /\ NoteOnEvent(m)
              /\ LastAddressed(lastCall.input, Len(lastCall.input), SlotOf(m)) = k
              /\ LastAddressed(lastCall.input, k - 1, SlotOf(m)) = 0
              /\ IsActive(Record(lastCall.notes, SlotOf(m)))
              /\ IsActive(Record(activeNotes, SlotOf(m)))
              /\ Record(activeNotes, SlotOf(m)).pitchBend #
                     Record(lastCall.notes, SlotOf(m)).pitchBend

\* the note-on of channel 1, note 60, velocity 100 puts out a bend of value
\* v on channel 1 and then itself, under table[60] = 100 and range 48
BendFor100CentsIs(v) ==
    (Done /\ tuningTable[60] = 100 /\ pitchBendRange = 48) =>
        \A i \in 1..Len(lastCall.input) :
            lastCall.input[i].msg = <<144, 60, 100>> =>
                LET j == OutIndex(lastCall.input, i)
                IN  /\ midiMessages[j] =
                           [pos |-> lastCall.input[i].pos,
                            msg |-> <<224, v % 128, v \div 128>>]
                    /\ midiMessages[j + 1] = lastCall.input[i]

\* C8, as stated: the bend for 100 cents at range 48 is 8363
C8_BendIs8363 == BendFor100CentsIs(8363)

\* C8, amended: the bend is 8362, 8192 + (100/4800)*8192 = 8362.67 cut
\* to an integer
C8_BendIs8362 == BendFor100CentsIs(8362)

C8_Witness ==
    /\ Done /\ tuningTable[60] = 100 /\ pitchBendRange = 48
    /\ \E i \in 1..Len(lastCall.input) : lastCall.input[i].msg = <<144, 60, 100>>
    /\ Record(activeNotes, <<1, 60>>).pitchBend = 8362

\* clamp(truncate(8192 + (c / (r*100)) * 8192), 0, 16383) in exact arithmetic
ExactBend(c, r) ==
    LET rangeCents == r * 100
    IN  IF c >= rangeCents THEN PitchBendMax
        ELSE IF c <= -rangeCents THEN 0
        ELSE (PitchBendCentre * rangeCents + c * PitchBendCentre) \div rangeCents

\* C9: for every cents value and every range in [1, 96] calculatePitchBend
\* returns clamp(truncate(8192 + (c / (r*100)) * 8192), 0, 16383): 8192 for
\* 0 cents, 16383 for +r*100 cents, 0 for -r*100 cents.
C9_MatchesExactBend ==
    bendCall.range \in MinPitchBendRange..MaxPitchBendRange =>
        bendCall.result = ExactBend(bendCall.cents, bendCall.range)

\* the value 8192 + (c / (r*100)) * 8192 lies outside the range of int
OutsideInt(c, r) ==
    \/ c > 0 /\ c \div (r * 100) >= 262143
    \/ c < 0 /\ (-c) \div (r * 100) >= 262146

\* C10: calculatePitchBend returns a value in [0, 16383] and saturates:
\* where the unclamped value does not fit in int, it returns 16383 for
\* positive cents and 0 for negative cents.
C10_SaturatesOnOverflow ==
    /\ bendCall.result \in 0..PitchBendMax
    /\ OutsideInt(bendCall.cents, bendCall.range) =>
          bendCall.result = IF bendCall.cents > 0 THEN PitchBendMax ELSE 0

\* C11: under one range r > 0 calculatePitchBend is non-decreasing in the
\* cents: the value just returned for c2 is not below what the function
\* returns for any c1 <= c2.
C11_Monotonic ==
    bendCall.range > 0 =>
        \A c1 \in CentsInputs :
            c1 <= bendCall.cents =>
                \A v1 \in pitchBendFor(c1, bendCall.range) : v1 <= bendCall.result

\* the operations that write the range, and the value each was asked for
WritesRange ==
    lastCall.op \in {"setPitchBendRange", "midi.setPitchBendRange", "setStateInformation"}

\* C12: the range is in [1, 96] in every reachable state: 48 at
\* construction and, after a write through the setter, the RPC request or
\* setStateInformation, the requested value clamped to [1, 96]; so
\* calculatePitchBend's test range <= 0 never succeeds.
C12_RangeWithinBounds ==
    /\ FloatLeq(MinPitchBendRange, pitchBendRange)
    /\ FloatLeq(pitchBendRange, MaxPitchBendRange)
    /\ ~FloatLeq(pitchBendRange, 0)
    /\ lastCall.op = "construct" => pitchBendRange = DefaultPitchBendRange
    /\ WritesRange =>
          pitchBendRange = IF FloatLess(lastCall.semitones, MinPitchBendRange)
                           THEN MinPitchBendRange
                           ELSE IF FloatLess(MaxPitchBendRange, lastCall.semitones)
                           THEN MaxPitchBendRange
                           ELSE lastCall.semitones

\* C13: setTuningTable changes the table alone: the records of the held
\* notes (original note, output note, bend), the range and the buffer are
\* as before it and no event is put out; the note-ons of the calls after
\* it are bent from the new table, and a held note that a call does not
\* address keeps the record it had.
C13_NoRetroactiveEffect ==
    /\ lastCall.op = "setTuningTable" =>
          /\ tuningTable = lastCall.table
          /\ activeNotes = lastCall.before.notes
          /\ pitchBendRange = lastCall.before.range
          /\ midiMessages = lastCall.before.buffer
    /\ Done =>
          /\ Len(midiMessages) = OutLen(lastCall.input)
          /\ \A i \in 1..Len(lastCall.input) :
                NoteOnEvent(lastCall.input[i].msg) =>
                    BendValue(midiMessages[OutIndex(lastCall.input, i)].msg) \in
                        pitchBendFor(lastCall.table[lastCall.input[i].msg[2]],
                                     lastCall.range)
          /\ \A s \in Slots :
                LastAddressed(lastCall.input, Len(lastCall.input), s) = 0 =>
                    Record(activeNotes, s) = Record(lastCall.notes, s)

\* the table has been replaced while a note is held whose recorded bend is
\* not the one the new table gives its note
C13_Witness ==
    /\ lastCall.op = "setTuningTable"
    /\ lastCall.table # lastCall.before.table
    /\ \E s \in Slots :
          /\ IsActive(Record(activeNotes, s))
          /\ Record(activeNotes, s).pitchBend \notin
                 pitchBendFor(tuningTable[s[2]], pitchBendRange)

\* C14: a processBlock call that one setTuningTable(new) call overlaps, the
\* table being old and at rest when the call begins, bends its note-ons as
\* if the table had been switched at one point of the block: the note-ons
\* before that point from old, those from it on from new.  No note-on is
\* bent from old after an earlier one was bent from new.
C14_SingleSwitchPoint ==
    (Done /\ ~lastCall.writeUnderWay /\ Len(lastCall.overlapped) = 1) =>
        LET in == lastCall.input
            old == lastCall.table
            new == lastCall.overlapped[1]
        IN  \E k \in 1..(Len(in) + 1) :
                \A i \in 1..Len(in) :
                    NoteOnEvent(in[i].msg) =>
                        BendValue(midiMessages[OutIndex(in, i)].msg) \in
                            pitchBendFor((IF i < k THEN old ELSE new)[in[i].msg[2]],
                                         lastCall.range)

\* C15: reset leaves every slot empty whatever it held, puts no event out
\* and leaves the table and the range as they were; a reset right after a
\* reset changes nothing; in the first call after a reset a note-off that
\* no note-on of the call precedes on its slot is forwarded as untracked.
C15_Reset ==
    /\ lastCall.op = "reset" =>
          /\ \A s \in Slots : Record(activeNotes, s) = EmptyNote
          /\ tuningTable = lastCall.before.table
          /\ pitchBendRange = lastCall.before.range
          /\ midiMessages = lastCall.before.buffer
          /\ lastCall.previous = "reset" => activeNotes = lastCall.before.notes
    /\ (Done /\ lastCall.afterReset) =>
          \A i \in 1..Len(lastCall.input) :
              LET m == lastCall.input[i].msg
                  k == LastAddressed(lastCall.input, i - 1, SlotOf(m))
              IN  (NoteOffEvent(m) /\ (k = 0 \/ NoteOffEvent(lastCall.input[k].msg))) =>
                      midiMessages[OutIndex(lastCall.input, i)] = lastCall.input[i]

\* a reset has emptied a tracker that held a note, under a table and a
\* range that are not the constructed ones
C15_Witness ==
    /\ lastCall.op = "reset"
    /\ \E s \in Slots : IsActive(Record(lastCall.before.notes, s))
    /\ tuningTable # ZeroTable
    /\ pitchBendRange # DefaultPitchBendRange

\* getTuningTable returns the member itself
getTuningTable == tuningTable

\* C16: after setTuningTable(T) getTuningTable returns exactly T, and goes
\* on returning T across processBlock and reset calls (and range writes)
\* until the next setTuningTable call, setStateInformation's included.
\* Before the first call it returns the constructed table.
C16_TableRoundTrip == getTuningTable = tableSet

\* a table other than the constructed one was set, then the engine was
\* reset and a block with a note-on has been processed
C16_Witness ==
    /\ tableSet = SharpFlatTable
    /\ Done
    /\ lastCall.afterReset
    /\ \E i \in 1..Len(lastCall.input) : NoteOnEvent(lastCall.input[i].msg)

\* C17: processBlock writes nothing of the engine but tracker slots: the
\* table and the range are after the call what they were before it, and
\* a slot differs only if a note-on or a note-off of the block addresses it.
C17_ProcessBlockFrame ==
    Done =>
        /\ tuningTable = lastCall.table
        /\ pitchBendRange = lastCall.range
        /\ \A s \in Slots :
              Record(activeNotes, s) # Record(lastCall.notes, s) =>
                  \E i \in 1..Len(lastCall.input) : Addressed(lastCall.input[i].msg, s)

\* under a table and a range that are not the constructed ones a block has
\* ended one held note and left another held note alone
C17_Witness ==
    /\ Done
    /\ tuningTable # ZeroTable
    /\ pitchBendRange # DefaultPitchBendRange
    /\ \E s, t \in Slots :
          /\ s[1] = t[1] /\ s # t
          /\ IsActive(Record(lastCall.notes, s)) /\ ~IsActive(Record(activeNotes, s))
          /\ IsActive(Record(lastCall.notes, t))
          /\ Record(activeNotes, t) = Record(lastCall.notes, t)

\* C18: processBlock makes no heap allocation (and takes no lock, waits for
\* nothing and does no I/O): all it reads and writes is in fixed-size
\* arrays allocated before the call.
C18_NoAllocation == Done => lastCall.allocations = 0

\* C19: a persisted blob whose size is not that of 128 table entries and
\* the range (516 bytes) is refused: setStateInformation given such a blob
\* leaves the tuning table and the pitch-bend range as they were.
PersistedSize == (NumNotes + 1) * FloatBytes
C19_SizeMismatchRefused ==
    (lastCall.op = "setStateInformation" /\ lastCall.sizeInBytes # PersistedSize) =>
        /\ tuningTable = lastCall.before.table
        /\ pitchBendRange = lastCall.before.range

\* two messages are one MIDI event: the same bytes, or note-offs of the same
\* channel, note and velocity (0x9n with velocity 0 and 0x8n with velocity 0)
SameMidiEvent(a, b) ==
    \/ a = b
    \/ /\ NoteOffEvent(a) /\ NoteOffEvent(b)
       /\ ChannelOf(a) = ChannelOf(b) /\ a[2] = b[2] /\ a[3] = b[3]

\* where event i of the block is in the output: after its bend if it is a
\* note-on
KeptIndex(buf, i) == OutIndex(buf, i) + (IF NoteOnEvent(buf[i].msg) THEN 1 ELSE 0)

\* C20: order preservation.  The output has one event more than the input
\* per note-on; the output events other than the injected pitch bends are
\* the input events, one for one, in the input's order and at the input's
\* sample positions (events sharing a position included); every other
\* output event is the injected bend of a note-on, at the note-on's position
\* and on its channel, immediately before that note-on.
C20_OrderPreserved ==
    Done =>
        LET in == lastCall.input
            out == midiMessages
            kept == {KeptIndex(in, i) : i \in 1..Len(in)}
        IN  /\ Len(out) = OutLen(in)
            /\ \A i \in 1..Len(in) :
                  /\ KeptIndex(in, i) <= Len(out)
                  /\ out[KeptIndex(in, i)].pos = in[i].pos
                  /\ SameMidiEvent(out[KeptIndex(in, i)].msg, in[i].msg)
            /\ \A j \in (1..Len(out)) \ kept :
                  \E i \in 1..Len(in) :
                      /\ NoteOnEvent(in[i].msg)
                      /\ KeptIndex(in, i) = j + 1
                      /\ out[j].pos = in[i].pos
                      /\ IsBendOn(out[j].msg, ChannelOf(in[i].msg))

\* a block of two events sharing a sample position, a note-on and another
\* event, has been rewritten: three events, the bend among them
C20_Witness ==
    /\ Done
    /\ Len(lastCall.input) = 2
    /\ lastCall.input[1].pos = lastCall.input[2].pos
    /\ ~NoteOnEvent(lastCall.input[1].msg)
    /\ NoteOnEvent(lastCall.input[2].msg)
    /\ Len(midiMessages) = 3
    /\ midiMessages[1].msg = lastCall.input[1].msg

\* a slot's record is the empty one or that of the slot's own note
WellFormed(rec, slot) ==
    \/ rec = EmptyNote
    \/ /\ rec.originalNote = slot[2]
       /\ rec.outputNote = slot[2]
       /\ rec.pitchBend \in 0..PitchBendMax

\* C21: in every reachable state each slot holds either the empty record
\* (-1, -1, 8192) or an active record whose original and output note are
\* the slot's own note number and whose bend is within 0..16383; and every
\* note-off a processBlock call puts out has the note number of the input
\* note-off it stands for.
C21_WellFormedRecords ==
    /\ \A s \in Slots : WellFormed(Record(activeNotes, s), s)
    /\ Done =>
          \A i \in 1..Len(lastCall.input) :
              LET m == lastCall.input[i].msg
                  o == midiMessages[OutIndex(lastCall.input, i)].msg
              IN  (HasChannel(m) /\ NoteOffEvent(m)) =>
                      NoteOffEvent(o) /\ o[2] = m[2]

\* a call has ended a recorded note with a note-off and left another slot
\* with an active record whose bend is off centre
C21_Witness ==
    /\ Done
    /\ \E i \in 1..Len(lastCall.input) :
          LET m == lastCall.input[i].msg
          IN  /\ HasChannel(m) /\ NoteOffEvent(m)
              /\ ActiveBefore(lastCall.notes, lastCall.input, i, SlotOf(m))
    /\ \E s \in Slots :
          /\ IsActive(Record(activeNotes, s))
          /\ Record(activeNotes, s).pitchBend # PitchBendCentre

\* C22: the blob getStateInformation writes is 129 floats (516 bytes, no
\* header): the 128 table entries in note order, then the range; and
\* setStateInformation given that blob, on an engine in whatever state,
\* leaves the engine with the table and the range of the engine that wrote
\* it and with its active note records as they were.
C22_PersistedRoundTrip ==
    destData.written =>
        /\ sizeInBytes(destData.blob) = PersistedSize
        /\ Len(destData.blob.floats) = NumNotes + 1
        /\ \A n \in NoteNumbers : destData.blob.floats[n + 1] = destData.table[n]
        /\ destData.blob.floats[NumNotes + 1] = destData.range
        /\ (lastCall.op = "setStateInformation" /\ lastCall.blob = destData.blob) =>
              /\ tuningTable = destData.table
              /\ pitchBendRange = destData.range
              /\ activeNotes = lastCall.before.notes

\* a state saved with the sharp/flat table has been restored into an engine
\* that had another table and another range by then and was holding a note
C22_Witness ==
    /\ destData.written
    /\ lastCall.op = "setStateInformation"
    /\ lastCall.blob = destData.blob
    /\ destData.table = SharpFlatTable
    /\ lastCall.before.table # destData.table
    /\ lastCall.before.range # destData.range
    /\ \E s \in Slots : IsActive(Record(activeNotes, s))

\* the request is one of the malformed ones: not an object, no method, an
\* unknown method, a tuningTable that is not an array of 128, or
\* midi.setPitchBendRange without semitones
Malformed(request) ==
    \/ ~request.isObject
    \/ "method" \notin DOMAIN request
    \/ request.method \notin {"midi.setTuning", "midi.setPitchBendRange", "getState"}
    \/ request.method = "midi.setTuning" /\ ~acceptsTuning(request.params)
    \/ request.method = "midi.setPitchBendRange" /\ "semitones" \notin DOMAIN request.params

\* C23: a malformed request is answered with an error and leaves the tuning
\* table and the pitch-bend range as they were.
C23_MalformedRequestRefused ==
    (lastCall.op = "handleRequest" /\ Malformed(lastCall.request)) =>
        /\ "error" \in DOMAIN lastCall.response
        /\ tuningTable = lastCall.before.table
        /\ pitchBendRange = lastCall.before.range

\* the trackers another engine could hold: every choice of the slots that
\* are active, each active record with the highest bend as its pitchBend
OtherTrackers ==
    {[c \in ChannelIndices |->
         [n \in NoteNumbers |->
             IF <<c + 1, n>> \in on
             THEN [originalNote |-> n, outputNote |-> n, pitchBend |-> PitchBendMax]
             ELSE EmptyNote]] : on \in SUBSET Slots}

\* no event of the block is a note-off written as a note-on of velocity 0
GenuineNoteOffs(buf) ==
    \A i \in 1..Len(buf) : ~(buf[i].msg[1] \in 144..159 /\ buf[i].msg[3] = 0)

\* C24: what processBlock puts out does not depend on the tracker.  For a
\* block of note-ons, note-offs of status 0x8n and other events, an engine
\* with the same table and range and any other tracker contents puts out
\* the same events at the same positions in the same order; in particular
\* the pitchBend a slot records makes no difference.
C24_OutputIndependentOfTracker ==
    (Done /\ GenuineNoteOffs(lastCall.input)) =>
        \A other \in OtherTrackers :
            {r.out : r \in processBlock(lastCall.table, lastCall.range, other,
                                        lastCall.input)} = {midiMessages}

\* a call has rewritten a block holding a note-on and the 0x8n note-off of
\* a slot its tracker had as active, with a non-zero table entry in play
C24_Witness ==
    /\ Done
    /\ GenuineNoteOffs(lastCall.input)
    /\ \E i, k \in 1..Len(lastCall.input) :
          /\ lastCall.input[i].msg[1] \in 128..143
          /\ ActiveBefore(lastCall.notes, lastCall.input, i, SlotOf(lastCall.input[i].msg))
          /\ IsActive(Record(lastCall.notes, SlotOf(lastCall.input[i].msg)))
          /\ NoteOnEvent(lastCall.input[k].msg)
          /\ lastCall.table[lastCall.input[k].msg[2]] # 0
====
